---- MODULE Spec2Model ----
(***************************************************************************)
(* Model of lava.lib.peripherals.dvs.inivation: the InivationCamera        *)
(* process (construction-time checks, output shape negotiation, dry run)   *)
(* and PyInivationCameraModel (per-tick acquisition loop, pause handling). *)
(*                                                                         *)
(* Collaborators that are not part of inivation.py are modelled from the   *)
(* design document: Compose and the transformations (transform.py) and the *)
(* quantized histogram binner (histo_quantized).                           *)
(***************************************************************************)
EXTENDS Integers, Sequences, FiniteSets, TLC

VARIABLES
    phase,              \* "new" | "rejected" | "process" | "fatal" | "running"
    params,             \* arguments of InivationCamera.__init__
    error,              \* exception raised by the last failing operation, or NoError
    shape,              \* InivationCamera.shape / proc_params['shape'] / s_out.shape
    inferCalled,        \* determine_output_shape was consulted during __init__
    test_data,          \* the artificial batch the dry run of __init__ drew
    clock,              \* last value returned by time.time_ns()
    volume,             \* PyInivationCameraModel.volume (histogram buffer)
    t_pause,            \* PyInivationCameraModel.t_pause
    t_last_iteration,   \* PyInivationCameraModel.t_last_iteration
    delta_t,            \* delta_t of the last run_spk, in microseconds (0: not computed)
    clock_back,         \* some clock reading was earlier than the reading before it
    lastOp,             \* last operation of the process model that ran
    outcome,            \* how the last run_spk ended
    polled,             \* the last run_spk called capture.getNextEventBatch()
    binned,             \* the last run_spk called histo_quantized
    lastBatch,          \* the batch the camera returned to the last run_spk
    lastFrame,          \* the frame given to s_out.send by the last run_spk
    ticks,              \* number of run_spk calls that returned normally
    sent                \* number of s_out.send calls

vars == <<phase, params, error, shape, inferCalled, test_data, clock, volume, t_pause,
          t_last_iteration, delta_t, clock_back, lastOp, outcome, polled, binned,
          lastBatch, lastFrame, ticks, sent>>

-----------------------------------------------------------------------------
(* Bounds of the model *)

MaxBatch == 1           \* longest ordinary event batch the camera returns
MaxPipeline == 2        \* longest Compose pipeline
MaxTicks == 2           \* run_spk calls that return normally
MaxClockReads == 1      \* clock readings that advance the clock

(* Program constants *)

CounterMax == 255       \* np.uint8 histogram counters
NumPolarities == 2      \* EventVolume(..., polarities=2)
TickNs == 20000999      \* one clock step, in nanoseconds

MaxClock == MaxClockReads * TickNs

Min(a, b) == IF a < b THEN a ELSE b
Max(a, b) == IF a > b THEN a ELSE b

-----------------------------------------------------------------------------
(* Exceptions *)

NoError == "none"
BinsError == "ValueError: Not Implemented: num_output_time_bins must be 1."
BiasesError == "ValueError: Cant set biases if reading from file."
TransformError == "Exception: Your transformation is not compatible with the provided data."
BiasesNotImplemented == "NotImplementedError: Biases are not implemented yet."
PauseNotImplemented == "NotImplementedError: Pausing it not implemented yet."
BinnerError == "binner raised"

-----------------------------------------------------------------------------
(* Events, batches, shapes *)

\* A batch is a time-ordered array of events.  It is kept as a sequence of
\* runs: n consecutive events (n >= 1) with the same x, y, p and t.
Event(x, y, p, t, n) == [x |-> x, y |-> y, p |-> p, t |-> t, n |-> n]

\* Number of events in the runs lo .. hi of a batch.
RECURSIVE NumEventsIn(_, _, _)
NumEventsIn(events, lo, hi) ==
    IF lo > hi THEN 0
    ELSE IF lo = hi THEN events[lo].n
    ELSE LET mid == (lo + hi) \div 2
         IN  NumEventsIn(events, lo, mid) + NumEventsIn(events, mid + 1, hi)

\* len(events)
NumEvents(events) == NumEventsIn(events, 1, Len(events))

NoShape == <<>>

\* The cells of a buffer of shape <<time_bins, polarities, height, width>>.
Cells(s) ==
    IF s = NoShape THEN {}
    ELSE (0 .. s[1] - 1) \X (0 .. s[2] - 1) \X (0 .. s[3] - 1) \X (0 .. s[4] - 1)

\* Number of elements of a buffer of shape s.
Size(s) == IF s = NoShape THEN 0 ELSE s[1] * s[2] * s[3] * s[4]

\* Position of cell c = <<bin, polarity, y, x>> in the row-major storage of a
\* buffer of shape s.
Offset(c, s) == ((c[1] * s[2] + c[2]) * s[3] + c[3]) * s[4] + c[4] + 1

InBuffer(c, s) ==
    /\ 0 <= c[1] /\ c[1] < s[1]
    /\ 0 <= c[2] /\ c[2] < s[2]
    /\ 0 <= c[3] /\ c[3] < s[3]
    /\ 0 <= c[4] /\ c[4] < s[4]

\* np.zeros(shape)
Zeros(s) == [shape |-> s, data |-> [i \in 1 .. Size(s) |-> 0]]

\* frame[bin, polarity, y, x]
At(frame, c) == frame.data[Offset(c, frame.shape)]

NoFrame == [shape |-> NoShape, data |-> <<>>]

-----------------------------------------------------------------------------
(* Transformations and Compose (transform.py), from the design document:   *)
(* a transformation has an apply function on event batches and a shape     *)
(* function on EventVolume descriptors; Compose left-folds both.           *)

EventVolume(height, width, polarities) ==
    [height |-> height, width |-> width, polarities |-> polarities]

TransformPool == {"MergePolarities", "Downsample", "Upsample", "UpsampleCopy"}

\* A transformation that edits the array it is given and returns that same
\* array, as opposed to one that returns a new array and leaves its input.
InPlace(tr) == tr \in {"MergePolarities", "Downsample", "Upsample"}

ApplyToEvent(tr, e) ==
    CASE tr = "MergePolarities" -> [e EXCEPT !.p = 0]
      [] tr = "Downsample"      -> [e EXCEPT !.x = e.x \div 2, !.y = e.y \div 2]
      [] tr = "Upsample"        -> [e EXCEPT !.x = 2 * e.x, !.y = 2 * e.y]
      [] tr = "UpsampleCopy"    -> [e EXCEPT !.x = 2 * e.x, !.y = 2 * e.y]

\* apply of one transformation
TransformApply(tr, events) ==
    [i \in DOMAIN events |-> ApplyToEvent(tr, events[i])]

\* infer_output_shape of one transformation.  Upsample declares the height
\* doubled but not the width, UpsampleCopy declares the shape unchanged,
\* although their apply doubles both coordinates.
InferOutputShape(tr, ev) ==
    CASE tr = "MergePolarities" -> [ev EXCEPT !.polarities = 1]
      [] tr = "Downsample"      -> [ev EXCEPT !.height = (ev.height + 1) \div 2,
                                              !.width = (ev.width + 1) \div 2]
      [] tr = "Upsample"        -> [ev EXCEPT !.height = 2 * ev.height]
      [] tr = "UpsampleCopy"    -> ev

\* Compose.determine_output_shape: left fold of the shape functions.
RECURSIVE DetermineFrom(_, _, _)
DetermineFrom(ts, i, ev) ==
    IF i > Len(ts) THEN ev
    ELSE DetermineFrom(ts, i + 1, InferOutputShape(ts[i], ev))

determine_output_shape(ts, ev) == DetermineFrom(ts, 1, ev)

\* Compose.__call__: left fold of the apply functions.  arg is the array the
\* caller passed (edited by the in-place transformations that were handed
\* that very array), cur the array handed from one transformation to the
\* next, aliased whether cur still is the caller's array.
RECURSIVE ComposeFrom(_, _, _, _, _)
ComposeFrom(ts, i, arg, cur, aliased) ==
    IF i > Len(ts) THEN [arg |-> arg, ret |-> cur]
    ELSE LET out == TransformApply(ts[i], cur)
         IN  IF InPlace(ts[i])
             THEN ComposeFrom(ts, i + 1, IF aliased THEN out ELSE arg, out, aliased)
             ELSE ComposeFrom(ts, i + 1, arg, out, FALSE)

ComposeCall(ts, events) == ComposeFrom(ts, 1, events, events, TRUE)

-----------------------------------------------------------------------------
(* Quantized histogram binner (histo_quantized), from the design document  *)

\* Step 2: the window of an event among B equal-width windows of the span.
Window(t, span, B) ==
    LET dt == span \div B
    IN  IF dt = 0 THEN 0 ELSE Min(B - 1, t \div dt)

\* Step 3 for the n events of a run, which all fall on the same cell: n
\* increments by 1, each saturating at the counter's maximum.
IncrementTimes(c, n) == Min(CounterMax, c + n)

\* The loop over the runs lo .. hi of the batch, in order, stopping at the
\* first event that falls outside the buffer.
RECURSIVE BinRange(_, _, _, _, _)
BinRange(events, lo, hi, vol, span) ==
    IF lo > hi THEN [raised |-> FALSE, volume |-> vol]
    ELSE IF lo = hi
    THEN LET e == events[lo]
             c == <<Window(e.t, span, vol.shape[1]), e.p, e.y, e.x>>
         IN  IF ~InBuffer(c, vol.shape)
             THEN [raised |-> TRUE, volume |-> vol]
             ELSE [raised |-> FALSE,
                   volume |-> [vol EXCEPT !.data[Offset(c, vol.shape)] =
                                                 IncrementTimes(@, e.n)]]
    ELSE LET mid == (lo + hi) \div 2
             first == BinRange(events, lo, mid, vol, span)
         IN  IF first.raised THEN first
             ELSE BinRange(events, mid + 1, hi, first.volume, span)

\* histo_quantized(events, volume, span, reset): the buffer is zeroed when
\* reset is requested, then every event is counted.  A buffer without time
\* bins or an event outside the buffer makes the call raise, leaving the
\* buffer as written so far.
histo_quantized(events, vol, span, reset) ==
    LET start == IF reset THEN Zeros(vol.shape) ELSE vol
    IN  IF vol.shape[1] = 0
        THEN [raised |-> TRUE, volume |-> start]
        ELSE BinRange(events, 1, Len(events), start, span)

-----------------------------------------------------------------------------
(* Arguments of InivationCamera.__init__ *)

None == "None"

SensorPool == {<<3, 2>>, <<4, 4>>}               \* sensor_shape = (height, width)
DevicePool == {"", "recording.aedat4"}           \* "" is the live camera
BiasesPool == {None, "{}", "{bias: value}"}
NumBinsPool ==
    {[isInt |-> TRUE, val |-> v] : v \in -1 .. 2} \cup {[isInt |-> FALSE, val |-> 1]}

RECURSIVE SeqsUpTo(_, _)
SeqsUpTo(S, n) ==
    IF n = 0 THEN {<<>>}
    ELSE LET shorter == SeqsUpTo(S, n - 1)
         IN  shorter \cup {Append(q, e) : q \in shorter, e \in S}

NoTransformations == [isNone |-> TRUE, transforms |-> <<>>]
Compose(ts) == [isNone |-> FALSE, transforms |-> ts]
TransformationsPool ==
    {NoTransformations} \cup {Compose(ts) : ts \in SeqsUpTo(TransformPool, MaxPipeline)}

OutShapePool == {NoShape, <<1, 2, 1, 1>>, <<1, 2, 8, 8>>}

OneBin == [isInt |-> TRUE, val |-> 1]

\* The arguments given to __init__: every combination of the arguments the
\* two checks read; every pipeline with the shape inferred; every sensor
\* with the shape inferred or given, without and with a pipeline.
ParamsPool ==
    [sensor_shape : {<<4, 4>>}, device : DevicePool, biases : BiasesPool,
     transformations : {NoTransformations, Compose(<<"MergePolarities">>)},
     num_output_time_bins : NumBinsPool, out_shape : {NoShape}]
    \cup
    [sensor_shape : {<<3, 2>>}, device : {""}, biases : {None},
     transformations : TransformationsPool,
     num_output_time_bins : {OneBin}, out_shape : {NoShape}]
    \cup
    [sensor_shape : SensorPool, device : {""}, biases : {None},
     transformations : {NoTransformations, Compose(<<"MergePolarities">>),
                        Compose(<<"UpsampleCopy">>)},
     num_output_time_bins : {OneBin}, out_shape : OutShapePool]

NoParams ==
    [sensor_shape |-> <<0, 0>>, device |-> "", biases |-> None,
     transformations |-> NoTransformations,
     num_output_time_bins |-> OneBin, out_shape |-> NoShape]

-----------------------------------------------------------------------------
(* InivationCamera.__init__ *)

\* line 70: the time-bin check
BinsRejected(n) == ~n.isInt \/ n.val < 0 \/ n.val > 1

\* The biases check testing the truth value of the mapping.
BiasesRejectedIfTruthy(biases, device) == biases \notin {None, "{}"} /\ device # ""

\* line 73: the biases check
BiasesRejected(biases, device) == biases # None /\ device # ""

n_random_spikes == 1000     \* line 101

\* The negotiation unpacking sensor_shape as (width, height).
NegotiateShapeSwapped(p) ==
    LET height == p.sensor_shape[2]
        width == p.sensor_shape[1]
        input == EventVolume(height, width, NumPolarities)
        event_shape == IF p.transformations.isNone THEN input
                       ELSE determine_output_shape(p.transformations.transforms, input)
    IN  IF p.out_shape # NoShape
        THEN [shape |-> p.out_shape, consulted |-> FALSE]
        ELSE [shape |-> <<p.num_output_time_bins.val, event_shape.polarities,
                         event_shape.height, event_shape.width>>,
              consulted |-> ~p.transformations.isNone]

\* lines 84-96: output shape negotiation; consulted tells whether
\* determine_output_shape was called.
NegotiateShape(p) ==
    LET height == p.sensor_shape[1]
        width == p.sensor_shape[2]
        input == EventVolume(height, width, NumPolarities)
        event_shape == IF p.transformations.isNone THEN input
                       ELSE determine_output_shape(p.transformations.transforms, input)
    IN  IF p.out_shape # NoShape
        THEN [shape |-> p.out_shape, consulted |-> FALSE]
        ELSE [shape |-> <<p.num_output_time_bins.val, event_shape.polarities,
                         event_shape.height, event_shape.width>>,
              consulted |-> ~p.transformations.isNone]

\* lines 101-106: the artificial batch of the dry run.  The code draws 1000
\* uniformly random events; the outcomes kept here are a draw that hits every
\* cell of the sensor and a draw whose events all fall on the origin.
FullDraw(height, width) ==
    LET cells == height * width * NumPolarities
    IN  [i \in 1 .. cells |->
            Event((i - 1) % width, ((i - 1) \div width) % height,
                  (i - 1) \div (width * height), i, n_random_spikes \div cells)]

OriginDraw == <<Event(0, 0, 0, 1, n_random_spikes)>>

TestDataPool(p) == {FullDraw(p.sensor_shape[1], p.sensor_shape[2]), OriginDraw}

\* lines 98-114: TRUE when the dry run raises.  The value returned by the
\* Compose call is dropped, the array passed to it is binned.
DryRunRaises(p, shp, drawn) ==
    LET data == ComposeCall(p.transformations.transforms, drawn).arg
    IN  /\ NumEvents(data) > 0
        /\ histo_quantized(data, Zeros(shp), data[Len(data)].t, TRUE).raised

Reject(p, e, shp, consulted, drawn) ==
    /\ phase' = "rejected"
    /\ params' = p
    /\ error' = e
    /\ shape' = shp
    /\ inferCalled' = consulted
    /\ test_data' = drawn
    /\ UNCHANGED <<clock, volume, t_pause, t_last_iteration, delta_t, clock_back,
                   lastOp, outcome, polled, binned, lastBatch, lastFrame, ticks,
                   sent>>

Construct(p, drawn) ==
    /\ phase = "new"
    /\ IF BinsRejected(p.num_output_time_bins)
       THEN Reject(p, BinsError, NoShape, FALSE, <<>>)
       ELSE IF BiasesRejected(p.biases, p.device)
       THEN Reject(p, BiasesError, NoShape, FALSE, <<>>)
       ELSE LET neg == NegotiateShape(p)
            IN  IF p.transformations.isNone
                THEN /\ phase' = "process"
                     /\ params' = p
                     /\ error' = NoError
                     /\ shape' = neg.shape
                     /\ inferCalled' = neg.consulted
                     /\ test_data' = <<>>
                     /\ UNCHANGED <<clock, volume, t_pause, t_last_iteration,
                                    delta_t, clock_back, lastOp, outcome, polled,
                                    binned, lastBatch, lastFrame, ticks, sent>>
                ELSE IF DryRunRaises(p, neg.shape, drawn)
                THEN Reject(p, TransformError, neg.shape, neg.consulted, drawn)
                ELSE /\ phase' = "process"
                     /\ params' = p
                     /\ error' = NoError
                     /\ shape' = neg.shape
                     /\ inferCalled' = neg.consulted
                     /\ test_data' = drawn
                     /\ UNCHANGED <<clock, volume, t_pause, t_last_iteration,
                                    delta_t, clock_back, lastOp, outcome, polled,
                                    binned, lastBatch, lastFrame, ticks, sent>>

-----------------------------------------------------------------------------
(* The camera collaborator: what capture.getNextEventBatch() may return *)

\* n consecutive records of the batch with the same fields
CameraEvent(x, y, p, t, n) ==
    [timestamp |-> t, x |-> x, y |-> y, polarity |-> p, count |-> n]

\* Timestamp of the i-th event of a batch: ascending within the batch.
Stamp(i) == 5 * (i - 1)

\* <<x, y, polarity>> of the events the camera reports: the origin with
\* polarity 0 and the opposite corner of the sensor with polarity 1.
Sites(sensor) == {<<0, 0, 0>>, <<sensor[2] - 1, sensor[1] - 1, 1>>}

BatchOf(q) ==
    [i \in DOMAIN q |-> CameraEvent(q[i][1], q[i][2], q[i][3], Stamp(i), 1)]

\* n events on the same cell
Burst(n) == <<CameraEvent(0, 0, 0, 0, n)>>

\* sensor (4,4) scenario of the design document, section 8 item 6
ScenarioBatch ==
    <<CameraEvent(0, 0, 0, 0, 1), CameraEvent(1, 1, 1, 5, 1),
      CameraEvent(0, 0, 0, 10, 1)>>

\* getNextEventBatch() returns None or a batch, which may be empty.
NoBatch == [isNone |-> TRUE, events |-> <<>>]
Batch(evs) == [isNone |-> FALSE, events |-> evs]

CameraPool(sensor) ==
    {NoBatch}
    \cup {Batch(BatchOf(q)) : q \in SeqsUpTo(Sites(sensor), MaxBatch)}
    \cup {Batch(ScenarioBatch), Batch(Burst(CounterMax)), Batch(Burst(CounterMax + 1))}

-----------------------------------------------------------------------------
(* PyInivationCameraModel *)

\* time.time_ns() between two readings: a clock that never goes back stays
\* or advances; the wall clock may also be set back.
ClockSteps == {0, TickNs}
WallClockSteps == {0 - TickNs, 0, TickNs}

\* The readings the model follows.
ClockInRange(t) == 0 <= t /\ t <= MaxClock

\* The constructor testing the truth value of the mapping.
BiasesRaiseIfTruthy(biases) == biases \notin {None, "{}"}

\* line 145: biases make the constructor raise
BiasesRaise(biases) == biases # None

\* The pause test with a non-strict comparison.
PauseDetectedNonStrict(tp, tl) == tp >= tl

\* line 163: a pause happened since the last iteration
PauseDetected(tp, tl) == tp > tl

\* The conversion with the x and y fields exchanged.
NormalizeSwapped(batch) ==
    IF ~batch.isNone
    THEN [i \in DOMAIN batch.events |->
            Event(batch.events[i].y, batch.events[i].x, batch.events[i].polarity,
                  batch.events[i].timestamp, batch.events[i].count)]
    ELSE <<>>

\* lines 177-185: the batch as a structured array with fields y, x, p, t
Normalize(batch) ==
    IF ~batch.isNone
    THEN [i \in DOMAIN batch.events |->
            Event(batch.events[i].x, batch.events[i].y, batch.events[i].polarity,
                  batch.events[i].timestamp, batch.events[i].count)]
    ELSE <<>>

\* lines 198-199: the value returned by the Compose call is dropped
TransformEvents(transformations, events) ==
    IF ~transformations.isNone /\ NumEvents(events) > 0
    THEN ComposeCall(transformations.transforms, events).arg
    ELSE events

\* The frame step sending the buffer as it is when the batch is empty.
ToFrameStale(events, vol, s_out_shape) ==
    IF NumEvents(events) > 0
    THEN LET r == histo_quantized(events, vol,
                                  events[Len(events)].t - events[1].t, TRUE)
         IN  [raised |-> r.raised, binned |-> TRUE,
              volume |-> r.volume, frames |-> r.volume]
    ELSE [raised |-> FALSE, binned |-> FALSE, volume |-> vol, frames |-> vol]

\* The frame step calling the binner without reset.
ToFrameNoReset(events, vol, s_out_shape) ==
    IF NumEvents(events) > 0
    THEN LET r == histo_quantized(events, vol,
                                  events[Len(events)].t - events[1].t, FALSE)
         IN  [raised |-> r.raised, binned |-> TRUE,
              volume |-> r.volume, frames |-> r.volume]
    ELSE [raised |-> FALSE, binned |-> FALSE,
          volume |-> vol, frames |-> Zeros(s_out_shape)]

\* lines 202-206
ToFrame(events, vol, s_out_shape) ==
    IF NumEvents(events) > 0
    THEN LET r == histo_quantized(events, vol,
                                  events[Len(events)].t - events[1].t, TRUE)
         IN  [raised |-> r.raised, binned |-> TRUE,
              volume |-> r.volume, frames |-> r.volume]
    ELSE [raised |-> FALSE, binned |-> FALSE,
          volume |-> vol, frames |-> Zeros(s_out_shape)]

\* A send that does not reach the port.
s_out_send_lost(n) == n

\* line 210: s_out.send(frames), counted
s_out_send(n) == n + 1

\* The constructor reading t_last_iteration before t_pause.
ModelInitPauseLast(d1, d2) ==
    /\ phase = "process"
    /\ IF BiasesRaise(params.biases)
       THEN /\ phase' = "fatal"
            /\ error' = BiasesNotImplemented
            /\ UNCHANGED <<clock, volume, t_pause, t_last_iteration, clock_back>>
       ELSE /\ ClockInRange(clock + d1) /\ ClockInRange(clock + d1 + d2)
            /\ phase' = "running"
            /\ error' = NoError
            /\ volume' = Zeros(shape)
            /\ t_last_iteration' = clock + d1
            /\ t_pause' = clock + d1 + d2
            /\ clock' = clock + d1 + d2
            /\ clock_back' = (clock_back \/ d1 < 0 \/ d2 < 0)
    /\ lastOp' = "__init__"
    /\ UNCHANGED <<params, shape, inferCalled, test_data, delta_t, outcome, polled,
                   binned, lastBatch, lastFrame, ticks, sent>>

\* __init__, lines 133-154
ModelInit(d1, d2) ==
    /\ phase = "process"
    /\ IF BiasesRaise(params.biases)
       THEN /\ phase' = "fatal"
            /\ error' = BiasesNotImplemented
            /\ UNCHANGED <<clock, volume, t_pause, t_last_iteration, clock_back>>
       ELSE /\ ClockInRange(clock + d1) /\ ClockInRange(clock + d1 + d2)
            /\ phase' = "running"
            /\ error' = NoError
            /\ volume' = Zeros(shape)
            /\ t_pause' = clock + d1
            /\ t_last_iteration' = clock + d1 + d2
            /\ clock' = clock + d1 + d2
            /\ clock_back' = (clock_back \/ d1 < 0 \/ d2 < 0)
    /\ lastOp' = "__init__"
    /\ UNCHANGED <<params, shape, inferCalled, test_data, delta_t, outcome, polled,
                   binned, lastBatch, lastFrame, ticks, sent>>

DeltaFloor == 10000     \* line 173: the floor of delta_t, in microseconds

\* The elapsed duration without the floor.
ElapsedUnclamped(t_now, t_last) == (t_now - t_last) \div 1000

\* line 173: delta_t = np.max([10000, (t_now - self.t_last_iteration) // 1000])
Elapsed(t_now, t_last) == Max(DeltaFloor, (t_now - t_last) \div 1000)

\* The update keeping the previous value.
IterationTimeKept(t_now, t_last) == t_last

\* line 211: self.t_last_iteration = t_now
IterationTime(t_now, t_last) == t_now

\* The raise leaving through a handler that records the iteration time.
IterationTimeOnFaultUpdated(t_now, t_last) == t_now

\* lines 163-164: the raise leaves run_spk before line 211 is reached
IterationTimeOnFault(t_now, t_last) == t_last

\* run_spk, lines 156-211; steps are the steps the clock may have taken
\* since its last reading.
run_spk(batch, steps) ==
    /\ phase = "running"
    /\ ticks < MaxTicks
    /\ LET events == TransformEvents(params.transformations, Normalize(batch))
           f == ToFrame(events, volume, shape)
       IN  \E d \in steps :
            LET t_now == clock + d
            IN  /\ ClockInRange(t_now)
                /\ clock' = t_now
                /\ clock_back' = (clock_back \/ d < 0)
                /\ lastOp' = "run_spk"
                /\ IF PauseDetected(t_pause, t_last_iteration)
                   THEN /\ outcome' = "raised"
                        /\ error' = PauseNotImplemented
                        /\ delta_t' = 0
                        /\ polled' = FALSE
                        /\ binned' = FALSE
                        /\ lastBatch' = NoBatch
                        /\ lastFrame' = NoFrame
                        /\ t_last_iteration' =
                              IterationTimeOnFault(t_now, t_last_iteration)
                        /\ UNCHANGED <<volume, ticks, sent>>
                   ELSE /\ delta_t' = Elapsed(t_now, t_last_iteration)
                        /\ polled' = TRUE
                        /\ lastBatch' = batch
                        /\ binned' = f.binned
                        /\ volume' = f.volume
                        /\ IF f.raised
                           THEN /\ outcome' = "raised"
                                /\ error' = BinnerError
                                /\ lastFrame' = NoFrame
                                /\ UNCHANGED <<t_last_iteration, ticks, sent>>
                           ELSE /\ outcome' = "sent"
                                /\ error' = NoError
                                /\ lastFrame' = f.frames
                                /\ sent' = s_out_send(sent)
                                /\ t_last_iteration' = IterationTime(t_now, t_last_iteration)
                                /\ ticks' = ticks + 1
    /\ UNCHANGED <<phase, params, shape, inferCalled, test_data, t_pause>>

\* The notification also taking the clock reading as the last iteration time.
_pause_resync(d) ==
    /\ phase = "running"
    /\ ClockInRange(clock + d)
    /\ t_pause' = clock + d
    /\ t_last_iteration' = clock + d
    /\ clock' = clock + d
    /\ clock_back' = (clock_back \/ d < 0)
    /\ lastOp' = "_pause"
    /\ UNCHANGED <<phase, params, error, shape, inferCalled, test_data, volume,
                   delta_t, outcome, polled, binned, lastBatch, lastFrame, ticks,
                   sent>>

\* _pause, lines 213-216
_pause(d) ==
    /\ phase = "running"
    /\ ClockInRange(clock + d)
    /\ t_pause' = clock + d
    /\ clock' = clock + d
    /\ clock_back' = (clock_back \/ d < 0)
    /\ lastOp' = "_pause"
    /\ UNCHANGED <<phase, params, error, shape, inferCalled, test_data, volume,
                   t_last_iteration, delta_t, outcome, polled, binned, lastBatch,
                   lastFrame, ticks, sent>>

-----------------------------------------------------------------------------

Init ==
    /\ phase = "new"
    /\ params = NoParams
    /\ error = NoError
    /\ shape = NoShape
    /\ inferCalled = FALSE
    /\ test_data = <<>>
    /\ clock = 0
    /\ volume = NoFrame
    /\ t_pause = 0
    /\ t_last_iteration = 0
    /\ delta_t = 0
    /\ clock_back = FALSE
    /\ lastOp = "none"
    /\ outcome = "none"
    /\ polled = FALSE
    /\ binned = FALSE
    /\ lastBatch = NoBatch
    /\ lastFrame = NoFrame
    /\ ticks = 0
    /\ sent = 0

Next ==
    \/ \E p \in ParamsPool : \E drawn \in TestDataPool(p) : Construct(p, drawn)
    \/ \E d1 \in ClockSteps, d2 \in ClockSteps : ModelInit(d1, d2)
    \/ \E batch \in CameraPool(params.sensor_shape) : run_spk(batch, ClockSteps)
    \/ \E d \in ClockSteps : _pause(d)

Spec == Init /\ [][Next]_vars

\* The same program on a wall clock that may be set back between two
\* readings, for a live camera on sensor (3, 2) with the shape inferred.
WallClockParams ==
    [sensor_shape : {<<3, 2>>}, device : {""}, biases : {None, "{}"},
     transformations : {NoTransformations, Compose(<<"MergePolarities">>)},
     num_output_time_bins : {OneBin}, out_shape : {NoShape}]

WallClockNext ==
    \/ \E p \in WallClockParams : \E drawn \in TestDataPool(p) : Construct(p, drawn)
    \/ \E d1 \in WallClockSteps, d2 \in WallClockSteps : ModelInit(d1, d2)
    \/ \E batch \in CameraPool(params.sensor_shape) : run_spk(batch, WallClockSteps)
    \/ \E d \in WallClockSteps : _pause(d)

WallClockSpec == Init /\ [][WallClockNext]_vars

-----------------------------------------------------------------------------
(* Vocabulary of the properties *)

\* __init__ of the process returned or raised.
Constructed == phase \in {"process", "fatal", "running"}
ConstructionOver == phase # "new"

\* The last operation was a run_spk that polled the camera.
Ticked == lastOp = "run_spk" /\ polled
Emitted == lastOp = "run_spk" /\ outcome = "sent"

EmptyBatch(batch) == batch.isNone \/ Len(batch.events) = 0

AllZero(frame) == \A i \in DOMAIN frame.data : frame.data[i] = 0

\* Number of events of a batch that fall on cell c = <<bin, polarity, y, x>>
\* of a buffer with one time bin.
RECURSIVE CountIn(_, _, _)
CountIn(events, k, c) ==
    IF k = 0 THEN 0
    ELSE (IF <<0, events[k].p, events[k].y, events[k].x>> = c
          THEN events[k].n ELSE 0) + CountIn(events, k - 1, c)

CountAt(events, c) == CountIn(events, Len(events), c)

RECURSIVE SumRange(_, _, _)
SumRange(q, lo, hi) ==
    IF lo > hi THEN 0
    ELSE IF lo = hi THEN q[lo]
    ELSE LET mid == (lo + hi) \div 2
         IN  SumRange(q, lo, mid) + SumRange(q, mid + 1, hi)

SumSeq(q) == SumRange(q, 1, Len(q))

\* The events the last run_spk handed to the binner.
BinnedEvents == TransformEvents(params.transformations, Normalize(lastBatch))

-----------------------------------------------------------------------------
(* C1: construction passes the time-bin check only when                    *)
(* num_output_time_bins is 1; every other value (2 and above, 0, negative, *)
(* non-integer) is rejected with the time-bin ValueError before any other  *)
(* state is set.                                                           *)
C1_OnlyOneBinAccepted ==
    (ConstructionOver /\ params.num_output_time_bins # OneBin)
        => (phase = "rejected" /\ error = BinsError /\ shape = NoShape)

(* C2: a bias mapping together with a non-empty device string is always    *)
(* rejected at construction with a ValueError, whatever the other          *)
(* arguments are; the biases ValueError is raised in no other case.        *)
C2_BiasesWithFileRejected ==
    ConstructionOver =>
        /\ (params.biases # None /\ params.device # "")
              => (phase = "rejected" /\ error \in {BinsError, BiasesError})
        /\ error = BiasesError => (params.biases # None /\ params.device # "")

C2_Witness ==
    /\ phase = "rejected" /\ error = BiasesError
    /\ params.biases = "{}" /\ params.device # ""
    /\ ~params.transformations.isNone

(* C3: every run_spk that returns normally has sent exactly one frame, a   *)
(* run_spk that raises has sent none, and the number of frames sent equals *)
(* the number of run_spk calls that returned.                              *)
C3_OneFramePerTick ==
    /\ sent = ticks
    /\ Emitted => lastFrame # NoFrame
    /\ (lastOp = "run_spk" /\ outcome = "raised") => lastFrame = NoFrame

C3_Witness ==
    /\ Emitted /\ sent = 2
    /\ EmptyBatch(lastBatch)
    /\ \E i \in DOMAIN volume.data : volume.data[i] > 0

(* C4: a run_spk to which the camera returned None or an empty batch sends *)
(* an all-zero frame of the configured output shape, whatever the          *)
(* histogram buffer holds, and does not call the binner.                   *)
C4_EmptyBatchZeroFrame ==
    (Ticked /\ EmptyBatch(lastBatch)) =>
        /\ outcome = "sent"
        /\ lastFrame.shape = shape
        /\ Len(lastFrame.data) = Size(shape)
        /\ AllZero(lastFrame)
        /\ ~binned

C4_Witness ==
    /\ Ticked /\ lastBatch = Batch(<<>>)
    /\ \E i \in DOMAIN volume.data : volume.data[i] > 0
    /\ AllZero(lastFrame) /\ lastFrame.shape = shape

(* C5: for any time-ordered batch every cell of the emitted frame is an     *)
(* integer in 0 .. 255 and the counts of the time bin add up to the number *)
(* of events of the batch mapped to that bin.                              *)
C5_SumEqualsEvents ==
    (Emitted /\ binned) =>
        /\ \A i \in DOMAIN lastFrame.data : lastFrame.data[i] \in 0 .. CounterMax
        /\ SumSeq(lastFrame.data) = NumEvents(BinnedEvents)

(* C5 as amended: every cell of the emitted frame is in 0 .. 255 and       *)
(* equals the number of events mapped to it, capped at 255; the counts add *)
(* up to the number of events of the batch when no cell receives more than *)
(* 255 events, and to less otherwise.                                      *)
C5_SaturatedCounts ==
    (Emitted /\ binned) =>
        /\ \A c \in Cells(lastFrame.shape) :
              /\ At(lastFrame, c) \in 0 .. CounterMax
              /\ At(lastFrame, c) = Min(CounterMax, CountAt(BinnedEvents, c))
        /\ IF \A c \in Cells(lastFrame.shape) : CountAt(BinnedEvents, c) <= CounterMax
           THEN SumSeq(lastFrame.data) = NumEvents(BinnedEvents)
           ELSE SumSeq(lastFrame.data) < NumEvents(BinnedEvents)

C5_Witness ==
    /\ Emitted /\ binned
    /\ lastBatch = Batch(Burst(CounterMax + 1))
    /\ At(lastFrame, <<0, 0, 0, 0>>) = CounterMax

(* C6: with no transformation configured, one output time bin and sensor   *)
(* shape (H, W), a tick on a non-empty batch emits a frame of shape        *)
(* (1, 2, H, W) whose cell [0, p, y, x] is the number of events of the     *)
(* batch with polarity p at (x, y).                                        *)
C6_PlainHistogram ==
    (Ticked /\ ~EmptyBatch(lastBatch) /\ params.transformations.isNone
        /\ params.num_output_time_bins = OneBin) =>
        /\ outcome = "sent"
        /\ lastFrame.shape = <<1, 2, params.sensor_shape[1], params.sensor_shape[2]>>
        /\ \A c \in Cells(lastFrame.shape) :
              At(lastFrame, c) = CountAt(Normalize(lastBatch), c)

(* C6 as amended: with no transformation and no explicit out_shape, a      *)
(* frame emitted by a tick on a non-empty batch has shape (1, 2, H, W) and *)
(* its cell [0, p, y, x] is the number of events with polarity p at (x, y) *)
(* capped at 255; with num_output_time_bins = 1 such a tick always emits.  *)
(* For sensor (4, 4) and the three events of the scenario the frame holds  *)
(* 2 at channel 0 (0, 0), 1 at channel 1 (1, 1) and 0 elsewhere.           *)
C6_PlainHistogramCapped ==
    (Ticked /\ ~EmptyBatch(lastBatch) /\ params.transformations.isNone
        /\ params.out_shape = NoShape) =>
        /\ params.num_output_time_bins = OneBin => outcome = "sent"
        /\ outcome = "sent" =>
            /\ lastFrame.shape =
                  <<1, 2, params.sensor_shape[1], params.sensor_shape[2]>>
            /\ Len(lastFrame.data) = 2 * params.sensor_shape[1] * params.sensor_shape[2]
            /\ \A p \in 0 .. 1, y \in 0 .. params.sensor_shape[1] - 1,
                  x \in 0 .. params.sensor_shape[2] - 1 :
                  At(lastFrame, <<0, p, y, x>>) =
                      Min(CounterMax, CountAt(Normalize(lastBatch), <<0, p, y, x>>))
            /\ (params.sensor_shape = <<4, 4>> /\ lastBatch = Batch(ScenarioBatch)) =>
                  \A c \in Cells(<<1, 2, 4, 4>>) :
                      At(lastFrame, c) = IF c = <<0, 0, 0, 0>> THEN 2
                                         ELSE IF c = <<0, 1, 1, 1>> THEN 1 ELSE 0

C6_Witness ==
    /\ Emitted /\ params.transformations.isNone /\ params.out_shape = NoShape
    /\ params.sensor_shape = <<4, 4>> /\ lastBatch = Batch(ScenarioBatch)
    /\ At(lastFrame, <<0, 0, 0, 0>>) = 2 /\ At(lastFrame, <<0, 1, 1, 1>>) = 1

\* The events a pipeline returns for the events of the sensor all lie inside
\* a buffer of shape shp.
RECURSIVE ShapeAfter(_, _)
ShapeAfter(ts, input) ==
    IF Len(ts) = 0 THEN input
    ELSE InferOutputShape(ts[Len(ts)], ShapeAfter(SubSeq(ts, 1, Len(ts) - 1), input))

SensorEvents(sensor) == FullDraw(sensor[1], sensor[2])

Holds(shp, events) ==
    \A i \in DOMAIN events :
        InBuffer(<<0, events[i].p, events[i].y, events[i].x>>, shp)

\* The shape the pipeline of the arguments declares for the sensor.
DeclaredShape(p) ==
    LET ev == ShapeAfter(p.transformations.transforms,
                         EventVolume(p.sensor_shape[1], p.sensor_shape[2], 2))
    IN  <<p.num_output_time_bins.val, ev.polarities, ev.height, ev.width>>

(* C7: a transformation whose declared output shape is inconsistent with   *)
(* the events its apply produces makes construction fail: the dry run bins *)
(* the transformed artificial batch into a buffer of the declared shape,   *)
(* so in every constructed process with a pipeline and an inferred shape   *)
(* the declared shape holds what the pipeline returned for that batch.     *)
C7_InconsistentTransformRejected ==
    (Constructed /\ ~params.transformations.isNone /\ params.out_shape = NoShape) =>
        Holds(DeclaredShape(params),
              ComposeCall(params.transformations.transforms, test_data).ret)

(* C8: the output shape is validated at construction for every             *)
(* configuration, an explicit out_shape included: with no transformation   *)
(* configured, every constructed process with an explicit out_shape has a  *)
(* shape that holds the events of the sensor.                              *)
C8_ExplicitShapeValidated ==
    (Constructed /\ params.out_shape # NoShape /\ params.transformations.isNone) =>
        Holds(shape, SensorEvents(params.sensor_shape))

(* C9: when out_shape is given it is the output shape and the shape        *)
(* functions are not consulted; otherwise the output shape is              *)
(* (num_output_time_bins, 2, height, width) without transformations and    *)
(* (num_output_time_bins, P, H, W) with them, (P, H, W) being the result   *)
(* of the shape functions applied in pipeline order to (2, height, width). *)
C9_ShapeNegotiation ==
    (ConstructionOver /\ error \notin {BinsError, BiasesError}) =>
        IF params.out_shape # NoShape
        THEN shape = params.out_shape /\ ~inferCalled
        ELSE IF params.transformations.isNone
        THEN /\ shape = <<params.num_output_time_bins.val, 2,
                          params.sensor_shape[1], params.sensor_shape[2]>>
             /\ ~inferCalled
        ELSE shape = DeclaredShape(params) /\ inferCalled

C9_Witness ==
    /\ phase = "process" /\ params.sensor_shape = <<3, 2>>
    /\ params.transformations = Compose(<<"Downsample", "Upsample">>)
    /\ shape = <<1, 2, 4, 1>> /\ inferCalled

(* C10: after a pause notification the next run_spk raises the pause fault *)
(* without polling the camera or sending a frame, for every pause.         *)
C10_EveryPauseDetected ==
    [][(lastOp = "_pause" /\ lastOp' = "run_spk")
          => (error' = PauseNotImplemented /\ ~polled' /\ sent' = sent)]_vars

(* C10 as amended: after a pause notification whose clock reading is later *)
(* than last_iteration_time the next run_spk raises the pause fault        *)
(* without polling the camera or sending a frame; a pause notified at a    *)
(* clock reading equal to last_iteration_time is not detected and the next *)
(* run_spk polls the camera as if no pause had happened.                   *)
C10_LaterPauseDetected ==
    [][(lastOp = "_pause" /\ lastOp' = "run_spk") =>
          IF t_pause > t_last_iteration
          THEN /\ error' = PauseNotImplemented /\ outcome' = "raised"
               /\ ~polled' /\ sent' = sent /\ lastFrame' = NoFrame
          ELSE /\ t_pause = t_last_iteration
               /\ error' # PauseNotImplemented /\ polled']_vars

C10_Witness ==
    /\ lastOp = "run_spk" /\ error = PauseNotImplemented
    /\ ticks >= 1 /\ t_pause > t_last_iteration /\ ~polled

(* C11: the loop starts as if just resumed: when __init__ of the process   *)
(* model returns, t_pause <= t_last_iteration, and a run_spk that starts   *)
(* with t_pause <= t_last_iteration polls the camera, does not raise the   *)
(* pause fault and ends with t_pause <= t_last_iteration; so without a     *)
(* pause notification no run_spk ever raises the pause fault.              *)
C11_NoPauseNoFault ==
    [][/\ (lastOp' = "__init__" /\ phase' = "running")
             => t_pause' <= t_last_iteration'
       /\ (phase = "running" /\ t_pause <= t_last_iteration /\ lastOp' = "run_spk")
             => /\ t_pause' <= t_last_iteration'
                /\ error' # PauseNotImplemented
                /\ polled']_vars

C11_Witness ==
    /\ Emitted /\ ticks = 2
    /\ t_pause < t_last_iteration
    /\ delta_t > DeltaFloor

(* C12: the process model constructor raises the biases fault for every    *)
(* bias mapping other than None, the empty one included, before the        *)
(* histogram buffer and the timing fields are set; with biases no run_spk  *)
(* ever runs and no frame is sent.                                         *)
C12_BiasesFatal ==
    /\ (Constructed /\ params.biases # None) =>
          /\ phase \in {"process", "fatal"}
          /\ lastOp \in {"none", "__init__"}
          /\ sent = 0 /\ ticks = 0 /\ lastFrame = NoFrame
    /\ (lastOp = "__init__" /\ params.biases # None) => phase = "fatal"
    /\ phase = "fatal" =>
          /\ params.biases # None
          /\ error = BiasesNotImplemented
          /\ volume = NoFrame
          /\ t_pause = 0 /\ t_last_iteration = 0 /\ clock = 0

C12_Witness ==
    /\ phase = "fatal" /\ lastOp = "__init__"
    /\ params.biases = "{}" /\ params.device = ""
    /\ volume = NoFrame

(* C13: on a run_spk with a non-empty batch and a pipeline whose output    *)
(* for the events of the sensor fits the output shape, the binner is given *)
(* the batch Compose returns: the frame sent is the binning of that batch  *)
(* into a zeroed buffer, and the frame is all zeros without a binner call  *)
(* when that batch is empty.                                               *)
C13_BinnerGetsComposeOutput ==
    (/\ Ticked /\ ~EmptyBatch(lastBatch) /\ ~params.transformations.isNone
     /\ Holds(shape, ComposeCall(params.transformations.transforms,
                                 SensorEvents(params.sensor_shape)).ret)) =>
        LET out == ComposeCall(params.transformations.transforms,
                               Normalize(lastBatch)).ret
            expected == ToFrame(out, Zeros(shape), shape)
        IN  /\ binned = expected.binned
            /\ IF expected.raised THEN outcome = "raised"
               ELSE outcome = "sent" /\ lastFrame = expected.frames

(* C14: the frame a run_spk sends is the frame a freshly constructed loop  *)
(* (zeroed buffer) sends for the same batch, whatever the ticks before it  *)
(* left in the buffer.                                                     *)
C14_FrameOfFreshLoop ==
    Emitted => lastFrame = ToFrame(BinnedEvents, Zeros(shape), shape).frames

C14_Witness ==
    /\ Emitted /\ ticks = 2 /\ binned
    /\ lastBatch = Batch(Burst(CounterMax))
    /\ At(lastFrame, <<0, 0, 0, 0>>) = CounterMax
    /\ SumSeq(lastFrame.data) = CounterMax

(* C15: a run_spk that returns sets t_last_iteration to the clock value it *)
(* read at its start, a run_spk that raises leaves it unchanged, and on a  *)
(* clock that never goes back t_last_iteration never decreases.            *)
C15_IterationTimeIsTickStart ==
    [][/\ (lastOp' = "run_spk" /\ outcome' = "sent") => t_last_iteration' = clock'
       /\ (lastOp' = "run_spk" /\ outcome' = "raised")
             => t_last_iteration' = t_last_iteration
       /\ t_last_iteration' >= t_last_iteration]_vars

C15_Witness ==
    /\ Emitted /\ delta_t > DeltaFloor
    /\ t_last_iteration = clock /\ t_last_iteration = TickNs

(* C16: on every run_spk that takes the not-paused branch delta_t is       *)
(* max(10000, floor((t_now - t_last_iteration) / 1000)), never below       *)
(* 10000, and exactly 10000 when t_now equals or is earlier than           *)
(* t_last_iteration.                                                       *)
C16_ElapsedFloor ==
    [][(lastOp' = "run_spk" /\ polled') =>
          LET span == clock' - t_last_iteration
          IN  /\ IF span >= 10001000
                 THEN 1000 * delta_t' <= span /\ span < 1000 * (delta_t' + 1)
                 ELSE delta_t' = 10000
              /\ delta_t' >= 10000
              /\ span <= 0 => delta_t' = 10000]_vars

\* A run_spk that took the not-paused branch and ended with t_pause later
\* than t_last_iteration read a clock value earlier than the previous
\* t_last_iteration.
C16_Witness ==
    /\ Emitted /\ t_pause > t_last_iteration
    /\ clock_back /\ delta_t = 10000

(* C17: a pause notification sets t_pause to the clock value it reads and  *)
(* changes nothing else: no frame is sent, the camera is not polled,       *)
(* t_last_iteration and the histogram buffer are unchanged.                *)
C17_PauseOnlySetsPauseTime ==
    [][lastOp' = "_pause" =>
          /\ t_pause' = clock'
          /\ UNCHANGED <<t_last_iteration, volume, sent, ticks, lastFrame,
                         lastBatch, polled, binned, outcome, error, delta_t,
                         phase, shape, params>>]_vars

C17_Witness ==
    /\ lastOp = "_pause" /\ t_pause > t_last_iteration
    /\ sent = 1 /\ outcome = "sent"
    /\ \E i \in DOMAIN volume.data : volume.data[i] > 0

(* C18: a run_spk that raises the pause fault changes neither              *)
(* t_last_iteration, t_pause nor the buffer and sends nothing, and once a  *)
(* run_spk has raised it every later run_spk raises it too, whatever       *)
(* pause notifications come in between.                                    *)
C18_FaultLatched ==
    [][/\ (lastOp' = "run_spk" /\ error' = PauseNotImplemented)
             => /\ UNCHANGED <<t_last_iteration, t_pause, volume, sent, ticks>>
                /\ lastFrame' = NoFrame /\ ~polled'
       /\ (error = PauseNotImplemented /\ lastOp' = "run_spk")
             => (error' = PauseNotImplemented /\ sent' = sent)]_vars

(* C18 as amended: a run_spk that raises the pause fault changes neither   *)
(* t_last_iteration, t_pause nor the buffer and sends nothing; as long as  *)
(* the clock has never gone back, every run_spk after it raises the fault  *)
(* too, whatever pause notifications come in between.  The latch is the    *)
(* condition t_pause > t_last_iteration: a pause notification that reads a *)
(* clock value not later than t_last_iteration clears it, and the next     *)
(* run_spk polls the camera again.                                         *)
C18_LatchedOnSteadyClock ==
    [][/\ (lastOp' = "run_spk" /\ error' = PauseNotImplemented)
             => /\ UNCHANGED <<t_last_iteration, t_pause, volume, sent, ticks>>
                /\ lastFrame' = NoFrame /\ ~polled'
       /\ (error = PauseNotImplemented /\ lastOp' = "run_spk")
             => IF clock_back' /\ t_pause <= t_last_iteration
                THEN polled' /\ error' # PauseNotImplemented
                ELSE error' = PauseNotImplemented /\ sent' = sent
       /\ (error = PauseNotImplemented /\ lastOp' = "_pause" /\ ~clock_back')
             => t_pause' > t_last_iteration']_vars

C18_Witness ==
    /\ lastOp = "_pause" /\ error = PauseNotImplemented
    /\ ~clock_back /\ t_pause > t_last_iteration
    /\ sent = 1

====
